---- MODULE Spec2Model ----
(***************************************************************************)
(* Model of lapack.Syevd (linalg/lapack/syevd.go): the validation and      *)
(* dispatch layer in front of the symmetric eigensolver kernel dsyevd.     *)
(*                                                                         *)
(* One behaviour is one call: Init fixes the caller's matrices A and W     *)
(* with their backing stores, action Syevd runs the function from its      *)
(* entry up to the point where it either returns or invokes the kernel,    *)
(* action dsyevd is the kernel running on the windows it was handed        *)
(* followed by the mapping of its status to the returned error.            *)
(***************************************************************************)
EXTENDS Integers, Sequences, FiniteSets, TLC

\* ---- bounds of the model ------------------------------------------------
MaxDim == 3        \* rows and columns of A range over 0..MaxDim
MaxW == 3          \* number of elements of W ranges over 0..MaxW
MaxOff == 2        \* offsets range over -1..MaxOff

VARIABLES
    A,            \* the matrix argument: [type, rows, cols]
    W,            \* the eigenvalue argument: [type, rows, cols]
    Aa,           \* backing store of A, a flat sequence of cells
    Wa,           \* backing store of W
    opts,         \* the options of the call
    pc,           \* "ready", "kernel" (inside dsyevd), "done", "panicked"
    err,          \* the error returned by Syevd
    info,         \* the local variable info
    kargs,        \* the arguments dsyevd was invoked with
    kernelCalls,  \* how many times dsyevd was invoked
    touchedA,     \* absolute indices of Aa the kernel accessed
    touchedW      \* absolute indices of Wa the kernel accessed

vars == <<A, W, Aa, Wa, opts, pc, err, info, kargs, kernelCalls, touchedA, touchedW>>

\* ---- values ---------------------------------------------------------------
\* A cell of a backing store is either what the caller put there or
\* something the kernel wrote.
Orig == "orig"
Written == "written"

\* error values: nil, or the value errors.New(text) builds
nil == [isNil |-> TRUE]
New(text) == [s |-> text]

NoOpts == [jobz |-> "PJobNo", uplo |-> "PLower", n |-> -1, ldA |-> 0,
           offsetA |-> 0, offsetW |-> 0]
NoArgs == [jobz |-> "", uplo |-> "", n |-> 0, base |-> 0, len |-> 0, lda |-> 0,
           wbase |-> 0, wlen |-> 0]

\* ---- the matrix package ------------------------------------------------
MatrixTypes == {"FloatMatrix", "ComplexMatrix"}
Rows(M) == M.rows
Cols(M) == M.cols
NumElements(M) == M.rows * M.cols

\* ---- the linalg package: option parsing ---------------------------------
JobzValues == {"PJobNo", "PJobV"}
UploValues == {"PLower", "PUpper"}

GetParameters(o) ==
    [pars |-> [Jobz |-> o.jobz, Uplo |-> o.uplo], err |-> nil]

GetIndexOpts(o) ==
    [N |-> o.n, LDa |-> o.ldA, OffsetA |-> o.offsetA, OffsetW |-> o.offsetW]

ParamString(p) ==
    CASE p = "PJobNo" -> "N"
      [] p = "PJobV" -> "V"
      [] p = "PLower" -> "L"
      [] p = "PUpper" -> "U"

max(a, b) == IF a > b THEN a ELSE b

\* ---- Syevd: input constraints and defaulting (lines 51-80) ---------------
\* line 51-52: a negative n means "use the default", the row count of A
DefaultN(N, M) == IF N < 0 THEN Rows(M) ELSE N

\* (mutation: the test is made whether or not n was defaulted)
NotSquare_Always(N, M) == Rows(M) # Cols(M)

\* line 51-55: the squareness test is made only when n was defaulted
NotSquare(N, M) == N < 0 /\ DefaultN(N, M) # Cols(M)

\* (mutation: the early return for n = 0 is missing)
EmptyProblem_Never(N) == FALSE

\* line 57
EmptyProblem(N) == N = 0

\* (mutation: the default ignores the row count)
DefaultLDa_One(LDa, M) == IF LDa = 0 THEN 1 ELSE LDa

\* line 60-62: a zero ldA means "use the default", max(1, A.Rows())
DefaultLDa(LDa, M) == IF LDa = 0 THEN max(1, Rows(M)) ELSE LDa

\* (mutation: ldA is compared with 1, not with max(1, n))
LdaTooSmall_NoOrder(LDa, N) == LDa < 1

\* line 63
LdaTooSmall(LDa, N) == LDa < max(1, N)

\* line 66
OffsetANegative(ind) == ind.OffsetA < 0

\* (mutation: <= for <)
SizeATooSmall_Strict(sizeA, ind) ==
    sizeA <= ind.OffsetA + (ind.N - 1) * ind.LDa + ind.N

\* (mutation: the last column is not counted)
SizeATooSmall_NoLastColumn(sizeA, ind) ==
    sizeA < ind.OffsetA + (ind.N - 1) * ind.LDa

\* line 69-70
SizeATooSmall(sizeA, ind) == sizeA < ind.OffsetA + (ind.N - 1) * ind.LDa + ind.N

\* (mutation: the sign of offsetW is not tested)
OffsetWNegative_Unchecked(ind) == FALSE

\* line 74
OffsetWNegative(ind) == ind.OffsetW < 0

\* (mutation: off by one)
SizeWTooSmall_OffByOne(sizeW, ind) == sizeW < ind.OffsetW + ind.N - 1

\* line 77-78
SizeWTooSmall(sizeW, ind) == sizeW < ind.OffsetW + ind.N

\* lines 51-80 in the order of the code.  The result says whether the
\* function returns here (ret), with which error, and the index options as
\* the code has updated them so far.
Validate(MA, MW, ind0) ==
    LET ind1 == [ind0 EXCEPT !.N = DefaultN(ind0.N, MA)]
        ind2 == [ind1 EXCEPT !.LDa = DefaultLDa(ind1.LDa, MA)]
    IN  IF NotSquare(ind0.N, MA)
          THEN [ret |-> TRUE, err |-> New("A not square"), ind |-> ind1]
        ELSE IF EmptyProblem(ind1.N)
          THEN [ret |-> TRUE, err |-> nil, ind |-> ind1]
        ELSE IF LdaTooSmall(ind2.LDa, ind2.N)
          THEN [ret |-> TRUE, err |-> New("lda"), ind |-> ind2]
        ELSE IF OffsetANegative(ind2)
          THEN [ret |-> TRUE, err |-> New("offsetA"), ind |-> ind2]
        ELSE IF SizeATooSmall(NumElements(MA), ind2)
          THEN [ret |-> TRUE, err |-> New("sizeA"), ind |-> ind2]
        ELSE IF OffsetWNegative(ind2)
          THEN [ret |-> TRUE, err |-> New("offsetW"), ind |-> ind2]
        ELSE IF SizeWTooSmall(NumElements(MW), ind2)
          THEN [ret |-> TRUE, err |-> New("sizeW"), ind |-> ind2]
        ELSE [ret |-> FALSE, err |-> nil, ind |-> ind2]

\* ---- Syevd: dispatch (lines 82-92) -----------------------------------------
\* (mutation: every matrix takes the FloatMatrix case)
TypeCase_AlwaysFloat(M) == "FloatMatrix"

\* line 83: the type switch on A
TypeCase(M) == M.type

\* A slice expression s[off:] of Go is valid when 0 <= off <= len(s);
\* otherwise it panics.
SliceOK(length, off) == 0 <= off /\ off <= length

\* (mutation: only a positive status is an error)
ResultMapping_PositiveOnly(i) == IF i > 0 THEN New("Syevd call error") ELSE nil

\* line 93-96: the mapping of info to the returned error
ResultMapping(i) == IF i # 0 THEN New("Syevd call error") ELSE nil

\* ---- the kernel -----------------------------------------------------------
KernelStatuses == {0, 1, 2, -1}

\* The window offsets the kernel accesses under its contract: element (i, j)
\* of the n x n matrix at j*lda + i of the matrix window, eigenvalue k at k
\* of the eigenvalue window.
KernelAccessA(ka) ==
    {j * ka.lda + i : i \in 0 .. ka.n - 1, j \in 0 .. ka.n - 1}
KernelAccessW(ka) == 0 .. ka.n - 1

\* A backing store after the kernel wrote the cells at the absolute
\* (0-based) indices in idx.
WriteCells(store, idx) ==
    [k \in 1 .. Len(store) |-> IF (k - 1) \in idx THEN Written ELSE store[k]]

\* ---- the state machine ------------------------------------------------------
Matrices == [type : MatrixTypes, rows : 0 .. MaxDim, cols : 0 .. MaxDim]
Vectors == [type : {"FloatMatrix"}, rows : 0 .. MaxW, cols : {1}]
Options == [jobz : JobzValues, uplo : UploValues, n : -1 .. MaxDim,
            ldA : -1 .. MaxDim + 1, offsetA : -1 .. MaxOff, offsetW : -1 .. MaxOff]

Init ==
    /\ A \in Matrices
    /\ W \in Vectors
    /\ Aa = [k \in 1 .. NumElements(A) |-> Orig]
    /\ Wa = [k \in 1 .. NumElements(W) |-> Orig]
    /\ opts = NoOpts
    /\ pc = "ready"
    /\ err = nil
    /\ info = 0
    /\ kargs = NoArgs
    /\ kernelCalls = 0
    /\ touchedA = {}
    /\ touchedW = {}

\* Syevd from its entry (line 45) to the point where it returns or has
\* handed its windows to dsyevd (line 89).
Syevd(o) ==
    /\ pc = "ready"
    /\ opts' = o
    /\ LET p == GetParameters(o)
           v == Validate(A, W, GetIndexOpts(o))
           ind == v.ind
       IN  IF p.err # nil
             THEN /\ pc' = "done"
                  /\ err' = p.err
                  /\ UNCHANGED <<info, kargs, kernelCalls>>
           ELSE IF v.ret
             THEN /\ pc' = "done"
                  /\ err' = v.err
                  /\ UNCHANGED <<info, kargs, kernelCalls>>
           ELSE IF TypeCase(A) = "FloatMatrix"
             THEN IF SliceOK(Len(Aa), ind.OffsetA) /\ SliceOK(Len(Wa), ind.OffsetW)
                    THEN /\ pc' = "kernel"
                         /\ kargs' = [jobz |-> ParamString(p.pars.Jobz),
                                      uplo |-> ParamString(p.pars.Uplo),
                                      n |-> ind.N,
                                      base |-> ind.OffsetA,
                                      len |-> Len(Aa) - ind.OffsetA,
                                      lda |-> ind.LDa,
                                      wbase |-> ind.OffsetW,
                                      wlen |-> Len(Wa) - ind.OffsetW]
                         /\ kernelCalls' = kernelCalls + 1
                         /\ UNCHANGED <<err, info>>
                    ELSE /\ pc' = "panicked"
                         /\ UNCHANGED <<err, info, kargs, kernelCalls>>
           ELSE IF TypeCase(A) = "ComplexMatrix"
             THEN /\ pc' = "done"
                  /\ err' = New("Not a complex function")
                  /\ UNCHANGED <<info, kargs, kernelCalls>>
           ELSE /\ pc' = "done"
                /\ err' = ResultMapping(info)
                /\ UNCHANGED <<info, kargs, kernelCalls>>
    /\ UNCHANGED <<A, W, Aa, Wa, touchedA, touchedW>>

\* The kernel runs on the windows it was handed and returns a status;
\* Syevd stores it in info and maps it to its result (lines 89, 93-96).
dsyevd(status) ==
    /\ pc = "kernel"
    /\ touchedA' = {kargs.base + x : x \in KernelAccessA(kargs)}
    /\ touchedW' = {kargs.wbase + x : x \in KernelAccessW(kargs)}
    /\ Aa' = WriteCells(Aa, touchedA')
    /\ Wa' = WriteCells(Wa, touchedW')
    /\ info' = status
    /\ err' = ResultMapping(status)
    /\ pc' = "done"
    /\ UNCHANGED <<A, W, opts, kargs, kernelCalls>>

Call == pc = "ready" /\ \E o \in Options : Syevd(o)
Kernel == pc = "kernel" /\ \E status \in KernelStatuses : dsyevd(status)

Next == Call \/ Kernel

Spec == Init /\ [][Next]_vars

\* ==== the properties ==========================================================
\* The vocabulary of the specification, stated on the inputs of the call
\* and independently of the operators above.
Started == pc # "ready"
Returned == pc = "done"
KernelInvoked == kernelCalls > 0
BuffersUntouched ==
    /\ Aa = [k \in 1 .. A.rows * A.cols |-> Orig]
    /\ Wa = [k \in 1 .. W.rows * W.cols |-> Orig]
    /\ touchedA = {}
    /\ touchedW = {}

ShapeError == New("A not square")
LayoutError == New("lda")
RangeErrors == {New("offsetA"), New("sizeA"), New("offsetW"), New("sizeW")}
UnsupportedTypeError == New("Not a complex function")
ValidationErrors == {ShapeError, LayoutError} \cup RangeErrors

CountA == A.rows * A.cols
CountW == W.rows * W.cols
AtLeast1(x) == IF x < 1 THEN 1 ELSE x
OrderN == IF opts.n < 0 THEN A.rows ELSE opts.n
LeadingDimension == IF opts.ldA = 0 THEN AtLeast1(A.rows) ELSE opts.ldA
NeededA == opts.offsetA + (OrderN - 1) * LeadingDimension + OrderN

NonSquareDefaulted == opts.n < 0 /\ A.rows # A.cols
LeadingDimensionTooSmall == LeadingDimension < AtLeast1(OrderN)
NegativeOffsetA == opts.offsetA < 0
MatrixBufferTooSmall == CountA < NeededA
NegativeOffsetW == opts.offsetW < 0
EigenvalueBufferTooSmall == CountW < opts.offsetW + OrderN

\* steps 1-8 of the specification: each step either lets the call go on or
\* ends it with an outcome (the defaulting of step 3 is in LeadingDimension)
StepEnds(i) ==
    CASE i = 1 -> NonSquareDefaulted
      [] i = 2 -> OrderN = 0
      [] i = 3 -> LeadingDimensionTooSmall
      [] i = 4 -> NegativeOffsetA
      [] i = 5 -> MatrixBufferTooSmall
      [] i = 6 -> NegativeOffsetW
      [] i = 7 -> EigenvalueBufferTooSmall
StepOut(i) ==
    CASE i = 1 -> ShapeError
      [] i = 2 -> nil
      [] i = 3 -> LayoutError
      [] i = 4 -> New("offsetA")
      [] i = 5 -> New("sizeA")
      [] i = 6 -> New("offsetW")
      [] i = 7 -> New("sizeW")
Ending == {i \in 1 .. 7 : StepEnds(i)}
FirstEnding == LET e == Ending IN CHOOSE i \in e : \A j \in e : i <= j
StepsPass == Ending = {}
\* the outcome of the first step that ends the call
StepsOutcome == StepOut(FirstEnding)
\* a step fails: the first step that ends the call ends it with an error
ValidationFails == ~StepsPass /\ StepsOutcome # nil

\* C1: fail-fast.  Whenever one of the listed input conditions is violated
\* (non-square matrix with defaulted n, leading dimension too small, negative
\* offsetA or offsetW, matrix buffer too small, eigenvalue buffer too small)
\* the call returns without the kernel having been invoked and with both
\* backing stores as the caller left them; when a validation step fails the
\* call returns a validation error; and a call that returned a validation
\* error never invoked the kernel.
C1_FailFast ==
    /\ (Started /\ (\/ NonSquareDefaulted \/ LeadingDimensionTooSmall
                    \/ NegativeOffsetA \/ NegativeOffsetW
                    \/ MatrixBufferTooSmall \/ EigenvalueBufferTooSmall))
          => (Returned /\ ~KernelInvoked /\ BuffersUntouched)
    /\ (Started /\ ValidationFails) => (Returned /\ err \in ValidationErrors)
    /\ (Returned /\ err \in ValidationErrors) => (~KernelInvoked /\ BuffersUntouched)

C1_Witness ==
    /\ Returned /\ A.type = "FloatMatrix" /\ OrderN > 0
    /\ EigenvalueBufferTooSmall
    /\ ~(NonSquareDefaulted \/ LeadingDimensionTooSmall \/ NegativeOffsetA
         \/ NegativeOffsetW \/ MatrixBufferTooSmall)
    /\ err = New("sizeW") /\ kernelCalls = 0

\* C2 as stated: a call with a complex-valued matrix fails with
\* UnsupportedTypeError and never invokes the kernel, whatever the other
\* inputs are.
C2_Original ==
    (Started /\ A.type = "ComplexMatrix")
        => (Returned /\ err = UnsupportedTypeError /\ ~KernelInvoked)

\* C2 amended: a call with a complex-valued matrix never invokes the kernel
\* and leaves both buffers alone; it fails with UnsupportedTypeError exactly
\* when the order n is at least 1 and steps 1-8 all pass, and otherwise has
\* the outcome of the first step that ends the call (success for n = 0).
C2_Amended ==
    (Started /\ A.type = "ComplexMatrix")
        => /\ Returned /\ ~KernelInvoked /\ BuffersUntouched
           /\ (err = UnsupportedTypeError) <=> StepsPass
           /\ ~StepsPass => err = StepsOutcome

C2_Witness ==
    /\ Returned /\ A.type = "ComplexMatrix" /\ StepsPass
    /\ err = UnsupportedTypeError /\ kernelCalls = 0

\* C3 as stated: after the kernel was invoked, status 0 gives success and a
\* nonzero status s gives an error that carries s; the kernel is invoked once.
C3_Original ==
    (Returned /\ KernelInvoked)
        => /\ kernelCalls = 1
           /\ info = 0 => err = nil
           /\ info # 0 => ("status" \in DOMAIN err /\ err.status = info)

\* C3 amended: after the kernel was invoked, status 0 gives success and every
\* nonzero status gives the same error "Syevd call error", which does not
\* carry the status; the kernel is invoked exactly once (no retry).
C3_Amended ==
    (Returned /\ KernelInvoked)
        => /\ kernelCalls = 1
           /\ info = 0 => err = nil
           /\ info # 0 => err = New("Syevd call error")

C3_Witness ==
    Returned /\ kernelCalls = 1 /\ info < 0 /\ err = New("Syevd call error")

\* C4: a call whose order is 0 (explicit n = 0, or defaulted n on a 0x0
\* matrix) returns success without invoking the kernel and without modifying
\* either buffer, whatever leadingDimension, the offsets and the sizes are.
C4_EmptyProblem ==
    (Started /\ (opts.n = 0 \/ (opts.n < 0 /\ A.rows = 0 /\ A.cols = 0)))
        => (Returned /\ err = nil /\ ~KernelInvoked /\ BuffersUntouched)

C4_Witness ==
    /\ Returned /\ opts.n = 0 /\ A.rows > 0 /\ opts.ldA < 0
    /\ opts.offsetA < 0 /\ opts.offsetW < 0 /\ err = nil /\ kernelCalls = 0

\* C5 as stated: a call whose supplied leadingDimension is less than
\* max(1, n) fails with LayoutError and touches neither buffer.
C5_Original ==
    (Started /\ opts.ldA < AtLeast1(OrderN))
        => (Returned /\ err = LayoutError /\ BuffersUntouched)

\* C5 amended: a call that passes the squareness step, whose order n is at
\* least 1 and whose leading dimension after defaulting (0 stands for
\* max(1, rows)) is less than max(1, n) fails with LayoutError and touches
\* neither buffer.
C5_Amended ==
    (Started /\ ~NonSquareDefaulted /\ OrderN >= 1 /\ LeadingDimensionTooSmall)
        => (Returned /\ err = LayoutError /\ ~KernelInvoked /\ BuffersUntouched)

C5_Witness ==
    /\ Returned /\ opts.n = 2 /\ opts.ldA = 1 /\ opts.offsetA = 0
    /\ err = LayoutError /\ kernelCalls = 0

\* C6 as stated: a call with offsetA < 0 or offsetW < 0 fails with RangeError
\* and touches neither buffer.
C6_Original ==
    (Started /\ (NegativeOffsetA \/ NegativeOffsetW))
        => (Returned /\ err \in RangeErrors /\ BuffersUntouched)

\* C6 amended: a call with offsetA < 0 or offsetW < 0 never invokes the
\* kernel and touches neither buffer; it fails with RangeError whenever
\* steps 1-4 pass (square matrix if n is defaulted, n >= 1, leading
\* dimension large enough), and otherwise has the outcome of the earlier
\* step.
C6_Amended ==
    (Started /\ (NegativeOffsetA \/ NegativeOffsetW))
        => /\ Returned /\ ~KernelInvoked /\ BuffersUntouched
           /\ (~NonSquareDefaulted /\ OrderN >= 1 /\ ~LeadingDimensionTooSmall)
                 => err \in RangeErrors

C6_Witness ==
    /\ Returned /\ NegativeOffsetW /\ ~NegativeOffsetA /\ OrderN >= 1
    /\ err = New("offsetW") /\ kernelCalls = 0

C8_Squareness ==
    Started => ((Returned /\ err = ShapeError) <=> NonSquareDefaulted)

C8_Witness ==
    /\ Returned /\ err = ShapeError /\ opts.ldA < 0 /\ opts.offsetA < 0
    /\ opts.offsetW < 0 /\ A.rows = 0

\* C9 as stated: the outcome is that of steps 1-8 applied in order with the
\* defaults n = rows and leadingDimension = max(1, rows); with several
\* violations the first failing step decides; and the kernel is reached if
\* and only if no step fails and n > 0.
C9_Original ==
    Started
        => /\ ~StepsPass => (Returned /\ err = StepsOutcome)
           /\ KernelInvoked <=> StepsPass

\* C9 amended: as C9, except that the kernel is reached if and only if no
\* step fails, n > 0 and the matrix is real; for a complex matrix that
\* passes steps 1-8 the call fails with UnsupportedTypeError instead.
C9_Amended ==
    Started
        => /\ ~StepsPass => (Returned /\ err = StepsOutcome)
           /\ KernelInvoked <=> (StepsPass /\ A.type = "FloatMatrix")
           /\ (StepsPass /\ A.type = "ComplexMatrix")
                 => (Returned /\ err = UnsupportedTypeError)

C9_Witness ==
    /\ Returned /\ OrderN >= 1 /\ ~NonSquareDefaulted
    /\ LeadingDimensionTooSmall /\ NegativeOffsetA /\ NegativeOffsetW
    /\ EigenvalueBufferTooSmall /\ err = LayoutError

\* C10: the kernel is invoked at most once, and whenever it is invoked
\* n >= 1, leadingDimension >= n, 0 <= offsetA,
\* offsetA + (n-1)*leadingDimension + n <= count(A), 0 <= offsetW and
\* offsetW + n <= count(W); the slices A[offsetA:] and W[offsetW:] are valid
\* and every index the kernel touches lies inside the caller's buffers.
C10_InBounds ==
    /\ kernelCalls <= 1
    /\ pc # "panicked"
    /\ KernelInvoked
          => /\ kargs.n >= 1
             /\ kargs.lda >= kargs.n
             /\ 0 <= kargs.base
             /\ kargs.base + (kargs.n - 1) * kargs.lda + kargs.n <= CountA
             /\ 0 <= kargs.wbase
             /\ kargs.wbase + kargs.n <= CountW
             /\ kargs.len = CountA - kargs.base
             /\ kargs.wlen = CountW - kargs.wbase
             /\ \A x \in KernelAccessA(kargs) : 0 <= x /\ x < kargs.len
             /\ \A x \in KernelAccessW(kargs) : 0 <= x /\ x < kargs.wlen
             /\ Returned => /\ touchedA \subseteq 0 .. CountA - 1
                            /\ touchedW \subseteq 0 .. CountW - 1
                            /\ touchedA # {} /\ touchedW # {}

C10_Witness ==
    /\ Returned /\ kernelCalls = 1 /\ kargs.base > 0 /\ kargs.wbase > 0
    /\ kargs.n >= 2 /\ kargs.lda > kargs.n /\ touchedA # {} /\ info = 0 /\ err = nil

====
